---- MODULE Spec2Model ----
(***************************************************************************)
(* Model of pyat/at/physics/energy_loss.py and pyat/at/physics/revolution.py *)
(*                                                                         *)
(* Units.  Lengths (ct, TimeLag) are counted in steps of 1/24 of the       *)
(* wavelength of the slowest frequency the model uses; a frequency is an   *)
(* integer with FUnit standing for that slowest frequency, so that         *)
(* clight = 24 * FUnit steps per time unit and 2*pi*freq*x/clight is the   *)
(* table index freq*x/FUnit of a 24-point sine table scaled by 1000.       *)
(* Voltages and energy losses are small integers in one common unit.       *)
(***************************************************************************)
EXTENDS Integers, Sequences, FiniteSets, TLC

VARIABLES ring, call, res

vars == <<ring, call, res>>

(* ------------------------------ bounds --------------------------------- *)
MaxVolt == 2
MaxLag0 == 1

(* --------------------------- Python values ----------------------------- *)
None == {}
Some(x) == {x}
The(o) == CHOOSE x \in o : TRUE

(* ----------------------------- constants ------------------------------- *)
clight == 2400
Cgamma_2pi_E4 == 1

QuarterSin == <<0, 259, 500, 707, 866, 966, 1000>>
Quarter == Len(QuarterSin) - 1
Period == 4 * Quarter
SinScale == QuarterSin[Len(QuarterSin)]
FUnit == clight \div Period

Harmonics == {1, 2, 3}
CavCounts == {1, 2}

(* ----------------------------- numerics -------------------------------- *)
SinTab(k) ==
    LET m == k % Period IN
    IF m <= Quarter THEN QuarterSin[m + 1]
    ELSE IF m <= 2 * Quarter THEN QuarterSin[2 * Quarter - m + 1]
    ELSE IF m <= 3 * Quarter THEN 0 - QuarterSin[m - 2 * Quarter + 1]
    ELSE 0 - QuarterSin[Period - m + 1]

\* numpy.sin(2*pi*freq*x/clight)
sin(freq, x) == SinTab((freq * x * Period) \div clight)

\* numpy.cos(2*pi*freq*x/clight)
cos(freq, x) == SinTab((freq * x * Period) \div clight + Quarter)

RECURSIVE SumSeq(_)
SumSeq(s) == IF s = <<>> THEN 0 ELSE Head(s) + SumSeq(Tail(s))

\* numpy.amin
amin(s) == CHOOSE m \in {s[i] : i \in 1..Len(s)} : \A i \in 1..Len(s) : m <= s[i]

\* numpy.argmin: the first index holding the minimum
argmin(s) == CHOOSE i \in 1..Len(s) :
                 /\ s[i] = amin(s)
                 /\ \A j \in 1..(i - 1) : s[j] # s[i]

\* numpy.sign
sign(v) == IF v > 0 THEN 1 ELSE IF v < 0 THEN 0 - 1 ELSE 0

(* ------------------------------ lattice -------------------------------- *)
Dipole(angle, length) ==
    [kind |-> "Dipole", BendingAngle |-> angle, Length |-> length]

Wiggler(pass) ==
    [kind |-> "Wiggler", PassMethod |-> pass, Length |-> 2,
     Bmax_Brho |-> 1, By2 |-> 1, Bx2 |-> 0]

Quadrupole == [kind |-> "Quadrupole", Length |-> 2, RadLoss |-> 1]

Drift(length) == [kind |-> "Drift", Length |-> length]

RFCavity(f, v, t) ==
    [kind |-> "RFCavity", Length |-> 0, Frequency |-> f, Voltage |-> v,
     TimeLag |-> t]

Cavities == {RFCavity(h * FUnit, v, t) :
                 h \in Harmonics, v \in 1..MaxVolt, t \in 0..MaxLag0}

CavSeqs == UNION {[1..n -> Cavities] : n \in CavCounts}

Rings ==
    {[elems |-> <<Dipole(2, 4), Wiggler(p), Quadrupole, Drift(16)>> \o cs,
      periodicity |-> 1, radiation |-> rad, harmonic_number |-> 1, beta |-> 1]
        : p \in {"DriftPass", "GWigSymplecticPass"},
          cs \in CavSeqs, rad \in BOOLEAN}

\* get_refpts(ring, RFCavity)
get_refpts(r) == {i \in 1..Len(r.elems) : r.elems[i].kind = "RFCavity"}

RECURSIVE SetToSeq(_)
SetToSeq(S) ==
    IF S = {} THEN <<>>
    ELSE LET m == CHOOSE x \in S : \A y \in S : x <= y
         IN <<m>> \o SetToSeq(S \ {m})

\* [cav.<name> for cav in ring.select(cavpts)], ps the refpts in lattice order
RECURSIVE attr(_, _, _)
attr(r, ps, name) ==
    IF ps = <<>> THEN <<>>
    ELSE <<r.elems[Head(ps)][name]>> \o attr(r, Tail(ps), name)

Frequencies(r, pts) == attr(r, SetToSeq(pts), "Frequency")
Voltages(r, pts) == attr(r, SetToSeq(pts), "Voltage")
TimeLagsOf(r, pts) == attr(r, SetToSeq(pts), "TimeLag")

TimeLags(r) == TimeLagsOf(r, get_refpts(r))

(* --------------------------- get_energy_loss --------------------------- *)
EnumINTEGRAL == [type |-> "ELossMethod", val |-> "INTEGRAL"]
EnumTRACKING == [type |-> "ELossMethod", val |-> "TRACKING"]
Str(s) == [type |-> "str", val |-> s]

Methods == {EnumINTEGRAL, EnumTRACKING, Str("integral"), Str("Tracking"),
            Str("foo"), [type |-> "int", val |-> "1"]}

\* str.upper
upper(s) ==
    CASE s = "integral" -> "INTEGRAL"
      [] s = "Integral" -> "INTEGRAL"
      [] s = "INTEGRAL" -> "INTEGRAL"
      [] s = "tracking" -> "TRACKING"
      [] s = "Tracking" -> "TRACKING"
      [] s = "TRACKING" -> "TRACKING"
      [] s = "foo" -> "FOO"
      [] OTHER -> s

ELossMethodNames == {"INTEGRAL", "TRACKING"}

dipole_i2(dipole) == (dipole.BendingAngle * dipole.BendingAngle) \div dipole.Length

wiggler_i2(wiggler) ==
    (wiggler.Length * (wiggler.By2 + wiggler.Bx2)
        * wiggler.Bmax_Brho * wiggler.Bmax_Brho) \div 2

RECURSIVE i2sum(_)
i2sum(elems) ==
    IF elems = <<>> THEN 0
    ELSE LET el == Head(elems) IN
         (IF el.kind = "Dipole" THEN dipole_i2(el)
          ELSE IF el.kind = "Wiggler" /\ el.PassMethod # "DriftPass"
               THEN wiggler_i2(el)
          ELSE 0) + i2sum(Tail(elems))

integral(r) == Cgamma_2pi_E4 * i2sum(r.elems)

\* one turn with the cavities off: the loss of every radiating element
RECURSIVE lattice_pass_loss(_)
lattice_pass_loss(elems) ==
    IF elems = <<>> THEN 0
    ELSE LET el == Head(elems) IN
         (IF el.kind = "Dipole" THEN Cgamma_2pi_E4 * dipole_i2(el)
          ELSE IF el.kind = "Wiggler" /\ el.PassMethod # "DriftPass"
               THEN Cgamma_2pi_E4 * wiggler_i2(el)
          ELSE IF el.kind = "Quadrupole" THEN el.RadLoss
          ELSE 0) + lattice_pass_loss(Tail(elems))

\* @check_radiation(True)
check_radiation(r, wanted) == r.radiation = wanted

tracking(r) ==
    IF ~check_radiation(r, TRUE)
    THEN [outcome |-> "AtError: radiation", value |-> None]
    ELSE [outcome |-> "ok", value |-> Some(lattice_pass_loss(r.elems))]

dispatch_tracking(r, warned) ==
    LET t == tracking(r) IN
    [outcome |-> t.outcome,
     value |-> IF t.outcome = "ok" THEN Some(r.periodicity * The(t.value)) ELSE None,
     estimator |-> "tracking", warned |-> warned]

dispatch(r, m, warned) ==
    IF m = EnumINTEGRAL
    THEN [outcome |-> "ok", value |-> Some(r.periodicity * integral(r)),
          estimator |-> "integral", warned |-> warned]
    ELSE IF m = EnumTRACKING
    THEN dispatch_tracking(r, warned)
    ELSE [outcome |-> "AtError: Invalid method", value |-> None,
          estimator |-> "none", warned |-> warned]

get_energy_loss(r, method) ==
    IF method.type = "str"
    THEN IF upper(method.val) \in ELossMethodNames
         THEN dispatch(r, [type |-> "ELossMethod", val |-> upper(method.val)],
                       {"FutureWarning: method"})
         ELSE [outcome |-> "KeyError", value |-> None, estimator |-> "none",
               warned |-> {}]
    ELSE dispatch(r, method, {})

(* ------------------------------- state --------------------------------- *)
NoTrace == [branch |-> "none", ctmax |-> 0, zero_diff |-> 0, sgn |-> 0,
            lo |-> None, hi |-> None, seed |-> None, phis |-> None,
            completed |-> FALSE]

NoResult ==
    [outcome |-> "none", u0 |-> None, estimator |-> "none", warnings |-> {},
     path |-> "none", timelag |-> <<>>, returned |-> "nothing",
     made |-> None, notice |-> FALSE, pre |-> None, sel |-> {},
     trace |-> NoTrace,
     func_called |-> FALSE, func_own |-> FALSE, func_ring |-> None,
     func_kwargs |-> <<>>]

NoCall == [op |-> "none", method |-> EnumINTEGRAL, cavpts |-> None,
           refpts |-> None, copy |-> FALSE, kwargs |-> <<>>]

(* ------------------------- get_timelag_fromU0 -------------------------- *)
\* the cavities an accessor works on: cavpts, or every cavity for None
selected(r, cavpts) == IF cavpts = None THEN get_refpts(r) ELSE The(cavpts)

\* ring.get_rf_voltage(cavpts=cavpts)
get_rf_voltage(r, cavpts) ==
    [ok |-> TRUE, value |-> r.periodicity * SumSeq(Voltages(r, selected(r, cavpts)))]

AllEqual(fs) == \A i \in 1..Len(fs) : fs[i] = fs[1]

\* ring.get_rf_frequency(cavpts=cavpts): AtError unless one shared frequency
get_rf_frequency(r, cavpts) ==
    IF AllEqual(Frequencies(r, selected(r, cavpts)))
    THEN [ok |-> TRUE, value |-> Frequencies(r, selected(r, cavpts))[1]]
    ELSE [ok |-> FALSE, value |-> 0]

RECURSIVE SumSin(_, _, _, _), SumCos(_, _, _, _)
SumSin(rfv, freq, x, n) ==
    IF n = 0 THEN 0
    ELSE rfv[n] * sin(freq[n], x) + SumSin(rfv, freq, x, n - 1)
SumCos(rfv, freq, x, n) ==
    IF n = 0 THEN 0
    ELSE rfv[n] * cos(freq[n], x) + SumCos(rfv, freq, x, n - 1)

\* eq = lambda x: numpy.sum(rfv*numpy.sin(2*pi*freq*(x)/clight))-u0
eq(rfv, freq, u0, x) == SumSin(rfv, freq, x, Len(rfv)) - u0 * SinScale

\* deq = lambda x: numpy.sum(rfv*numpy.cos(2*pi*freq*(x)/clight))
deq(rfv, freq, x) == SumCos(rfv, freq, x, Len(rfv))

\* the values of eq and deq on 0..n, the value at x under index x + 1
RECURSIVE eq_table(_, _, _, _), deq_table(_, _, _)
eq_table(rfv, freq, u0, n) ==
    IF n < 0 THEN <<>>
    ELSE Append(eq_table(rfv, freq, u0, n - 1), eq(rfv, freq, u0, n))
deq_table(rfv, freq, n) ==
    IF n < 0 THEN <<>>
    ELSE Append(deq_table(rfv, freq, n - 1), deq(rfv, freq, n))

\* the descent of scipy's bounded search: to a local minimum of fun^2
RECURSIVE descend(_, _, _, _)
descend(T, x, lo, hi) ==
    IF x > lo /\ T[x] * T[x] < T[x + 1] * T[x + 1]
              /\ (x = hi \/ T[x] * T[x] <= T[x + 2] * T[x + 2])
    THEN descend(T, x - 1, lo, hi)
    ELSE IF x < hi /\ T[x + 2] * T[x + 2] < T[x + 1] * T[x + 1]
    THEN descend(T, x + 1, lo, hi)
    ELSE x

\* scipy.optimize.least_squares(fun, x0, bounds=(lo, hi)).x[0]
least_squares(T, x0, lo, hi) ==
    IF lo >= hi \/ x0 < lo \/ x0 > hi
    THEN [outcome |-> "ValueError", x |-> 0]
    ELSE [outcome |-> "ok", x |-> descend(T, x0, lo, hi)]

\* deq(zero_diff-1.0e-6): deq just left of the stationary point, which lies
\* on the grid point z or between z and the neighbour where deq changes sign
deq_before(d, p) ==
    IF d = 0 THEN p
    ELSE IF (d > 0 /\ p < 0) \/ (d < 0 /\ p > 0) THEN p
    ELSE d

\* clight/(2*pi*freq)*numpy.arcsin(u0/rfv)
AbsErr(freq, u0, rfv, x) ==
    IF rfv * sin(freq, x) >= u0 * SinScale
    THEN rfv * sin(freq, x) - u0 * SinScale
    ELSE u0 * SinScale - rfv * sin(freq, x)

single_timelag(freq, u0, rfv) ==
    CHOOSE x \in 0..((clight \div freq) \div 4) :
        /\ \A y \in 0..((clight \div freq) \div 4) :
               AbsErr(freq, u0, rfv, x) <= AbsErr(freq, u0, rfv, y)
        /\ \A y \in 0..(x - 1) :
               AbsErr(freq, u0, rfv, y) > AbsErr(freq, u0, rfv, x)

TimelagBase(el, pts, path) ==
    [outcome |-> "ok", u0 |-> el.value, estimator |-> el.estimator,
     warnings |-> el.warned, path |-> path, timelag |-> <<>>, sel |-> pts,
     trace |-> NoTrace]

\* raise AtError('Not enough RF voltage: unstable ring')
unstable(base) == [base EXCEPT !.outcome = "AtError: unstable ring"]

\* timelag = phis+tl0-tl0[numpy.argmin(freq)]
RECURSIVE shifted(_, _, _)
shifted(phis, tl, tlref) ==
    IF tl = <<>> THEN <<>>
    ELSE <<phis + Head(tl) - tlref>> \o shifted(phis, Tail(tl), tlref)

\* the shift left out: timelag = phis+tl0
relative_timelag_unshifted(phis, tl0, freq) == shifted(phis, tl0, 0)

\* the first selected cavity taken as the reference, whatever its frequency
relative_timelag_first(phis, tl0, freq) == shifted(phis, tl0, tl0[1])

relative_timelag(phis, tl0, freq) == shifted(phis, tl0, tl0[argmin(freq)])

\* line 128, after the search of the first branch
finish_first(base, freq, tl0, t1, ls) ==
    IF ls.outcome # "ok"
    THEN [base EXCEPT !.outcome = ls.outcome, !.trace = t1]
    ELSE [base EXCEPT !.timelag = relative_timelag(ls.x, tl0, freq),
                      !.trace = [t1 EXCEPT !.phis = Some(ls.x),
                                           !.completed = TRUE]]

\* lines 123-124
first_branch(base, u0, rfv, freq, tl0, t0, zero_diff) ==
    finish_first(base, freq, tl0,
                 [t0 EXCEPT !.branch = "first", !.lo = Some(0),
                            !.hi = Some(zero_diff),
                            !.seed = Some(zero_diff \div 2)],
                 least_squares(eq_table(rfv, freq, u0, zero_diff),
                               zero_diff \div 2, 0, zero_diff))

\* lines 126-127: bounds=(zero_cross, ctmax) names zero_cross, which is not
\* defined; the seed (ctmax-zero_diff)/2 is evaluated before it
second_branch(base, t0, ctmax, zero_diff) ==
    [base EXCEPT !.outcome = "NameError",
                 !.trace = [t0 EXCEPT !.branch = "second",
                               !.hi = Some(ctmax),
                               !.seed = Some((ctmax - zero_diff) \div 2)]]

\* line 122
choose_branch(base, u0, rfv, freq, tl0, ctmax, zero_diff, sgn) ==
    IF sgn > 0
    THEN first_branch(base, u0, rfv, freq, tl0,
                      [NoTrace EXCEPT !.ctmax = ctmax, !.zero_diff = zero_diff,
                                      !.sgn = sgn],
                      zero_diff)
    ELSE second_branch(base,
                       [NoTrace EXCEPT !.ctmax = ctmax, !.zero_diff = zero_diff,
                                       !.sgn = sgn],
                       ctmax, zero_diff)

after_stationary(base, u0, rfv, freq, tl0, ctmax, zd) ==
    IF zd.outcome # "ok" THEN [base EXCEPT !.outcome = zd.outcome]
    ELSE choose_branch(base, u0, rfv, freq, tl0, ctmax, zd.x,
                       sign(deq_before(deq(rfv, freq, zd.x),
                                       deq(rfv, freq, zd.x - 1))))

\* line 121
stationary(base, u0, rfv, freq, tl0, ctmax) ==
    after_stationary(base, u0, rfv, freq, tl0, ctmax,
                     least_squares(deq_table(rfv, freq, ctmax), ctmax \div 2,
                                   0, ctmax))

\* lines 118-128; ctmax = 1/numpy.amin(freq)*clight/2
solve_multi(base, u0, rfv, freq, tl0) ==
    stationary(base, u0, rfv, freq, tl0, (clight \div amin(freq)) \div 2)

\* the loss clamped to the voltage instead of the error
check_multi_clamped(base, u0, rfv, freq, tl0) ==
    IF u0 > SumSeq(rfv) THEN solve_multi(base, SumSeq(rfv), rfv, freq, tl0)
    ELSE solve_multi(base, u0, rfv, freq, tl0)

\* the comparison off by one
check_multi_late(base, u0, rfv, freq, tl0) ==
    IF u0 > SumSeq(rfv) + 1 THEN unstable(base)
    ELSE solve_multi(base, u0, rfv, freq, tl0)

\* lines 116-128
check_multi(base, u0, rfv, freq, tl0) ==
    IF u0 > SumSeq(rfv) THEN unstable(base)
    ELSE solve_multi(base, u0, rfv, freq, tl0)

\* lines 113-115
fallback_on(el, r, pts) ==
    check_multi(TimelagBase(el, pts, "multi"), The(el.value),
                Voltages(r, pts), Frequencies(r, pts), TimeLagsOf(r, pts))

\* lines 110-128: the except branch
fallback(el, r, cavpts) ==
    fallback_on(el, r, IF cavpts = None THEN get_refpts(r) ELSE The(cavpts))

\* lines 129-132: the else branch; np is not a name of the module, and is
\* looked up after arcsin is evaluated and before len(cavpts)
single(base, u0, rfv, freq) ==
    IF u0 > rfv THEN unstable(base)
    ELSE [base EXCEPT !.outcome = "NameError"]

\* lines 107-132
try_accessors(el, r, cavpts, v, f) ==
    IF v.ok /\ f.ok
    THEN single(TimelagBase(el, selected(r, cavpts), "single"), The(el.value),
                v.value, f.value)
    ELSE fallback(el, r, cavpts)

after_loss(el, r, cavpts) ==
    IF el.outcome # "ok"
    THEN [TimelagBase(el, {}, "none") EXCEPT !.outcome = el.outcome]
    ELSE try_accessors(el, r, cavpts, get_rf_voltage(r, cavpts),
                       get_rf_frequency(r, cavpts))

get_timelag_fromU0(r, method, cavpts) ==
    after_loss(get_energy_loss(r, method), r, cavpts)

(* -------------------------- set_cavity_phase --------------------------- *)
RECURSIVE put_timelags(_, _, _, _)
put_timelags(elems, i, pts, values) ==
    IF elems = <<>> THEN <<>>
    ELSE IF i \in pts
    THEN <<[Head(elems) EXCEPT !.TimeLag = Head(values)]>>
             \o put_timelags(Tail(elems), i + 1, pts, Tail(values))
    ELSE <<Head(elems)>> \o put_timelags(Tail(elems), i + 1, pts, values)

WithTimeLags(r, pts, values) ==
    [r EXCEPT !.elems = put_timelags(r.elems, 1, pts, values)]

\* set_value_refpts(ring, cavpts, 'TimeLag', timelag, copy=copy):
\* writes every value, on the ring or on a shallow copy that it returns
set_value_refpts(r, pts, values, copy) ==
    IF copy
    THEN [ring |-> r, ret |-> Some(WithTimeLags(r, pts, values))]
    ELSE [ring |-> WithTimeLags(r, pts, values), ret |-> None]

\* lines 156-160
resolve_cavpts(r, refpts, cavpts) ==
    IF cavpts = None /\ refpts # None THEN refpts
    ELSE IF cavpts = None THEN Some(get_refpts(r))
    ELSE cavpts

alias_warning(refpts, cavpts) ==
    IF cavpts = None /\ refpts # None THEN {"FutureWarning: refpts"} ELSE {}

\* lines 163-165; the function ends without a return statement
after_write(t, warnings, w) ==
    [t |-> t, warnings |-> warnings, ring |-> w.ring, made |-> w.ret,
     returned |-> "None", notice |-> TRUE]

\* the notice printed before the solve is known to have succeeded
write_timelags_noticed(r, t, warnings, pts, copy) ==
    IF t.outcome # "ok"
    THEN [t |-> t, warnings |-> warnings, ring |-> r, made |-> None,
          returned |-> "nothing", notice |-> TRUE]
    ELSE after_write(t, warnings, set_value_refpts(r, pts, t.timelag, copy))

\* line 162
write_timelags(r, t, warnings, pts, copy) ==
    IF t.outcome # "ok"
    THEN [t |-> t, warnings |-> warnings, ring |-> r, made |-> None,
          returned |-> "nothing", notice |-> FALSE]
    ELSE after_write(t, warnings, set_value_refpts(r, pts, t.timelag, copy))

\* line 161
solve_then_write(r, method, warn0, pts, copy) ==
    write_timelags(r, get_timelag_fromU0(r, method, pts), warn0, The(pts), copy)

with_method_warnings(c) == [c EXCEPT !.warnings = c.warnings \cup c.t.warnings]

set_cavity_phase(r, method, refpts, cavpts, copy) ==
    with_method_warnings(
        solve_then_write(r, method, alias_warning(refpts, cavpts),
                         resolve_cavpts(r, refpts, cavpts), copy))

(* ------------------------------ revolution ----------------------------- *)
RECURSIVE get_s_pos(_)
get_s_pos(elems) ==
    IF elems = <<>> THEN 0 ELSE Head(elems).Length + get_s_pos(Tail(elems))

\* numpy.squeeze(orbit)[5] of the closed orbit at dp after one turn
path_lengthening(r, dp) == dp

get_revolution_frequency(r, dp, dct) ==
    LET lcell == get_s_pos(r.elems)
        frev == ((r.beta * clight) \div lcell) \div r.periodicity
    IN  IF dct # None THEN (frev * lcell) \div (lcell + The(dct))
        ELSE IF dp # None
        THEN (frev * lcell) \div (lcell + path_lengthening(r, The(dp)))
        ELSE frev

SetCavityKeywords == {"cavpts", "array"}

RECURSIVE scale_frequency(_, _, _)
scale_frequency(elems, frequency, fmin) ==
    IF elems = <<>> THEN <<>>
    ELSE IF Head(elems).kind = "RFCavity"
    THEN <<[Head(elems) EXCEPT
              !.Frequency = (Head(elems).Frequency * frequency) \div fmin]>>
             \o scale_frequency(Tail(elems), frequency, fmin)
    ELSE <<Head(elems)>> \o scale_frequency(Tail(elems), frequency, fmin)

WithFrequency(r, frequency) ==
    [r EXCEPT !.elems = scale_frequency(r.elems, frequency,
                                        amin(Frequencies(r, get_refpts(r))))]

\* ring.set_cavity(Frequency=frequency, **kwargs): the frequency goes to the
\* cavities of lowest frequency, the others are scaled by the same ratio;
\* the keywords it takes are those set_rf_frequency documents
set_cavity(r, frequency, kwargs, copy) ==
    IF ~(DOMAIN kwargs \subseteq SetCavityKeywords)
    THEN [outcome |-> "TypeError", ring |-> r, ret |-> None]
    ELSE IF copy
    THEN [outcome |-> "ok", ring |-> r, ret |-> Some(WithFrequency(r, frequency))]
    ELSE [outcome |-> "ok", ring |-> WithFrequency(r, frequency), ret |-> None]

set_rf_frequency(r, frequency, dp, dct, kwargs, copy) ==
    set_cavity(r,
               IF frequency = None
               THEN get_revolution_frequency(r, dp, dct) * r.harmonic_number
               ELSE The(frequency),
               kwargs, copy)

MomKeys == {"dp", "dct", "df"}

Restrict(f, D) == [k \in D |-> f[k]]

Get(kwargs, key) == IF key \in DOMAIN kwargs THEN kwargs[key] ELSE None

\* lines 32-36: the loop pops dp, dct and df and keeps those that are not None
momargs_of(kwargs) ==
    Restrict(kwargs, {k \in MomKeys \cap DOMAIN kwargs : kwargs[k] # None})

popped(kwargs) == Restrict(kwargs, DOMAIN kwargs \ MomKeys)

\* return func(ring, *args, **kwargs): func records what it is called with
call_func(r, caller, own, kwargs) ==
    [outcome |-> "ok", ring |-> caller, func_called |-> TRUE, func_own |-> own,
     func_ring |-> Some(r), func_kwargs |-> kwargs]

\* line 38: ring = set_rf_frequency(ring, **momargs, copy=True)
after_set_rf_frequency(s, rest) ==
    IF s.outcome # "ok"
    THEN [outcome |-> s.outcome, ring |-> s.ring, func_called |-> FALSE,
          func_own |-> FALSE, func_ring |-> None, func_kwargs |-> <<>>]
    ELSE call_func(The(s.ret), s.ring, FALSE, rest)

with_momargs(r, momargs, rest) ==
    IF DOMAIN momargs # {}
    THEN after_set_rf_frequency(
             set_rf_frequency(r, None, Get(momargs, "dp"), Get(momargs, "dct"),
                              Restrict(momargs, DOMAIN momargs \ {"dp", "dct"}),
                              TRUE),
             rest)
    ELSE call_func(r, r, TRUE, rest)

\* wrapper(ring, *args, **kwargs) of frequency_control(func)
wrapper(r, kwargs) ==
    IF r.radiation
    THEN with_momargs(r, momargs_of(kwargs), popped(kwargs))
    ELSE call_func(r, r, TRUE, kwargs)

(* ------------------------------ actions -------------------------------- *)
Init ==
    /\ ring \in Rings
    /\ call = NoCall
    /\ res = NoResult

Idle == call.op = "none"

EnergyLossReturns(el, method) ==
    /\ call' = [NoCall EXCEPT !.op = "get_energy_loss", !.method = method]
    /\ res' = [NoResult EXCEPT !.outcome = el.outcome, !.u0 = el.value,
                               !.estimator = el.estimator,
                               !.warnings = el.warned,
                               !.returned = IF el.outcome = "ok" THEN "loss"
                                            ELSE "nothing",
                               !.pre = Some(ring)]
    /\ UNCHANGED ring

GetEnergyLoss(method) ==
    /\ Idle
    /\ EnergyLossReturns(get_energy_loss(ring, method), method)

CavSelections(r) == {None} \cup {Some(S) : S \in (SUBSET get_refpts(r)) \ {{}}}

TimelagReturns(t, method, cavpts) ==
    /\ call' = [NoCall EXCEPT !.op = "get_timelag_fromU0", !.method = method,
                              !.cavpts = cavpts]
    /\ res' = [NoResult EXCEPT !.outcome = t.outcome, !.u0 = t.u0,
                               !.estimator = t.estimator,
                               !.warnings = t.warnings, !.path = t.path,
                               !.timelag = t.timelag, !.sel = t.sel,
                               !.trace = t.trace,
                               !.returned = IF t.outcome = "ok" THEN "timelag"
                                            ELSE "nothing",
                               !.pre = Some(ring)]
    /\ UNCHANGED ring

GetTimelagFromU0(method, cavpts) ==
    /\ Idle
    /\ TimelagReturns(get_timelag_fromU0(ring, method, cavpts), method, cavpts)

\* <<refpts, cavpts>>; refpts is only looked at when cavpts is None
PhaseArgs(r) ==
    {<<None, c>> : c \in CavSelections(r)}
        \cup {<<Some(get_refpts(r)), None>>,
              <<Some(get_refpts(r)), Some(get_refpts(r))>>}

PhaseMethods == {EnumINTEGRAL, EnumTRACKING, Str("tracking"),
                 [type |-> "int", val |-> "1"]}

CavityPhaseReturns(c, method, refpts, cavpts, copy) ==
    /\ call' = [NoCall EXCEPT !.op = "set_cavity_phase", !.method = method,
                              !.refpts = refpts, !.cavpts = cavpts,
                              !.copy = copy]
    /\ res' = [NoResult EXCEPT !.outcome = c.t.outcome, !.u0 = c.t.u0,
                               !.estimator = c.t.estimator,
                               !.warnings = c.warnings, !.path = c.t.path,
                               !.timelag = c.t.timelag, !.sel = c.t.sel,
                               !.trace = c.t.trace,
                               !.returned = c.returned, !.made = c.made,
                               !.notice = c.notice,
                               !.pre = Some(ring)]
    /\ ring' = c.ring

SetCavityPhase(method, refpts, cavpts, copy) ==
    /\ Idle
    /\ CavityPhaseReturns(set_cavity_phase(ring, method, refpts, cavpts, copy),
                          method, refpts, cavpts, copy)

KwKeys == MomKeys \cup {"keep_lattice"}

KwValues == {None, Some(1)}

Kwargs == UNION {[D -> KwValues] : D \in SUBSET KwKeys}

WrapperReturns(w, kwargs) ==
    /\ call' = [NoCall EXCEPT !.op = "frequency_control", !.kwargs = kwargs]
    /\ res' = [NoResult EXCEPT !.outcome = w.outcome,
                               !.func_called = w.func_called,
                               !.func_own = w.func_own,
                               !.func_ring = w.func_ring,
                               !.func_kwargs = w.func_kwargs,
                               !.returned = IF w.outcome = "ok" THEN "func"
                                            ELSE "nothing",
                               !.pre = Some(ring)]
    /\ ring' = w.ring

FrequencyControl(kwargs) ==
    /\ Idle
    /\ WrapperReturns(wrapper(ring, kwargs), kwargs)

\* the caller takes the result (or the exception); the next call can start
Return ==
    /\ ~Idle
    /\ call' = NoCall
    /\ res' = NoResult
    /\ UNCHANGED ring

CallEnergyLoss == \E method \in Methods : GetEnergyLoss(method)

CallTimelag ==
    \E method \in Methods, cavpts \in CavSelections(ring) :
        GetTimelagFromU0(method, cavpts)

CallCavityPhase ==
    \E method \in PhaseMethods, a \in PhaseArgs(ring), copy \in BOOLEAN :
        SetCavityPhase(method, a[1], a[2], copy)

CallFrequencyControl == \E kwargs \in Kwargs : FrequencyControl(kwargs)

NextLoss == CallEnergyLoss \/ Return

NextPhase == CallTimelag \/ CallCavityPhase \/ Return

NextFreq == CallFrequencyControl \/ Return

Next == CallEnergyLoss \/ CallTimelag \/ CallCavityPhase
            \/ CallFrequencyControl \/ Return

\* get_energy_loss alone
SpecLoss == Init /\ [][NextLoss]_vars

\* get_timelag_fromU0 and set_cavity_phase
SpecPhase == Init /\ [][NextPhase]_vars

\* a function wrapped by frequency_control
SpecFreq == Init /\ [][NextFreq]_vars

Spec == Init /\ [][Next]_vars
(* ------------------------------ properties ----------------------------- *)
IsTimelagCall == call.op = "get_timelag_fromU0"
IsPhaseCall == call.op = "set_cavity_phase"

\* the summed voltage of the cavities the call selects
SelectedVoltage == SumSeq(Voltages(ring, selected(ring, call.cavpts)))

LossComputed == res.u0 # None

\* C1: whenever the energy loss exceeds the total voltage of the selected
\* cavities, get_timelag_fromU0 raises 'Not enough RF voltage: unstable
\* ring' and returns no time-lag, in the single-frequency path and in the
\* fallback path alike
C1_UnstableRaises ==
    (IsTimelagCall /\ LossComputed /\ The(res.u0) > SelectedVoltage)
        => /\ res.outcome = "AtError: unstable ring"
           /\ res.returned = "nothing"
           /\ res.timelag = <<>>
           /\ res.path \in {"single", "multi"}

C1_Witness ==
    /\ IsTimelagCall
    /\ LossComputed
    /\ The(res.u0) > SelectedVoltage
    /\ res.path = "multi"
    /\ res.outcome = "AtError: unstable ring"

\* C9 as stated: every loss for which a time-lag assignment is returned is
\* strictly less than the summed voltage of the selected cavities
C9_StrictlyLess ==
    (IsTimelagCall /\ res.outcome = "ok") => The(res.u0) < SelectedVoltage

\* C9 amended: every loss for which a time-lag assignment is returned is at
\* most the summed voltage of the selected cavities; a loss equal to the
\* summed voltage is accepted
C9_AtMost ==
    (IsTimelagCall /\ res.outcome = "ok") => The(res.u0) <= SelectedVoltage

C9_Witness ==
    /\ IsTimelagCall
    /\ res.outcome = "ok"
    /\ res.returned = "timelag"
    /\ The(res.u0) = SelectedVoltage

\* index, among the selected cavities, of the reference cavity
RefIndex == argmin(Frequencies(ring, res.sel))

SelLags == TimeLagsOf(ring, res.sel)

DifferencesKept ==
    \A i, j \in 1..Len(res.timelag) :
        res.timelag[i] - res.timelag[j] = SelLags[i] - SelLags[j]

MultiSolved == IsTimelagCall /\ res.path = "multi" /\ res.outcome = "ok"

\* C5 as stated: in the fallback path the reference cavity (lowest
\* frequency) is returned its original TimeLag, and the differences between
\* the returned time-lags are those between the original TimeLags
C5_ReferenceKeepsTimeLag ==
    MultiSolved => /\ res.timelag[RefIndex] = SelLags[RefIndex]
                   /\ DifferencesKept

\* C5 amended: in the fallback path the reference cavity (the first selected
\* cavity of lowest frequency) is returned the solved phase phis, whatever
\* its original TimeLag, and the differences between the returned time-lags
\* are those between the original TimeLags
C5_ReferenceGetsPhase ==
    MultiSolved => /\ Len(res.timelag) = Cardinality(res.sel)
                   /\ res.timelag[RefIndex] = The(res.trace.phis)
                   /\ DifferencesKept

C5_Witness ==
    /\ MultiSolved
    /\ \E i \in 1..Len(res.timelag) : SelLags[i] # SelLags[RefIndex]
    /\ SelLags[RefIndex] # The(res.trace.phis)
    /\ SelLags[RefIndex] # 0

\* C6: a successful get_timelag_fromU0 returns one time-lag per selected
\* cavity; in the single-frequency path with u0 <= V it succeeds and every
\* entry is c/(2*pi*f)*arcsin(u0/V)
C6_OnePerCavity ==
    IsTimelagCall =>
        /\ res.outcome = "ok" =>
               Len(res.timelag) = Cardinality(selected(ring, call.cavpts))
        /\ (res.path = "single" /\ The(res.u0) <= SelectedVoltage) =>
               /\ res.outcome = "ok"
               /\ Len(res.timelag) = Cardinality(selected(ring, call.cavpts))
               /\ \A i \in 1..Len(res.timelag) :
                      res.timelag[i] =
                          single_timelag(
                              Frequencies(ring, selected(ring, call.cavpts))[1],
                              The(res.u0), SelectedVoltage)

BranchTaken == IsTimelagCall /\ res.trace.branch # "none"

InInterval(o, lo, hi) == o # None /\ The(o) >= lo /\ The(o) <= hi

\* C10: after the sign test the root of f is searched on [0, stationaryPoint]
\* seeded at stationaryPoint/2 when the sign is positive and on
\* [stationaryPoint, domainMax] seeded at that interval's midpoint
\* otherwise; either search completes, its seed is inside its bounds and the
\* phase it returns is inside the interval
C10_BothBranchesSearch ==
    BranchTaken =>
        /\ res.trace.completed
        /\ res.outcome = "ok"
        /\ IF res.trace.sgn > 0
           THEN /\ res.trace.lo = Some(0)
                /\ res.trace.hi = Some(res.trace.zero_diff)
                /\ res.trace.seed = Some(res.trace.zero_diff \div 2)
                /\ InInterval(res.trace.phis, 0, res.trace.zero_diff)
           ELSE /\ res.trace.lo = Some(res.trace.zero_diff)
                /\ res.trace.hi = Some(res.trace.ctmax)
                /\ res.trace.seed =
                       Some((res.trace.zero_diff + res.trace.ctmax) \div 2)
                /\ InInterval(res.trace.seed, res.trace.zero_diff,
                              res.trace.ctmax)
                /\ InInterval(res.trace.phis, res.trace.zero_diff,
                              res.trace.ctmax)

\* the TimeLag of every cavity of the supplied lattice before the call
PreLags == TimeLags(The(res.pre))

PhaseDone == IsPhaseCall /\ res.outcome = "ok"

\* C2: with copy=True set_cavity_phase returns a shallow copy whose selected
\* cavities carry the solved time-lags and leaves every TimeLag of the
\* supplied lattice unchanged; with copy=False it writes the solved
\* time-lags onto the supplied lattice
C2_CopyIsReturned ==
    PhaseDone =>
        IF call.copy
        THEN /\ res.returned = "ring"
             /\ res.made # None
             /\ TimeLagsOf(The(res.made), res.sel) = res.timelag
             /\ TimeLags(ring) = PreLags
        ELSE TimeLagsOf(ring, res.sel) = res.timelag

\* the lattice set_cavity_phase writes on
Target == IF call.copy THEN The(res.made) ELSE ring

\* C3: after a call of set_cavity_phase either every selected cavity of the
\* targeted lattice holds its newly solved time-lag, or the call failed, no
\* TimeLag has changed, no copy was written and no notice was emitted
C3_AllOrNothing ==
    IsPhaseCall =>
        IF res.outcome = "ok"
        THEN /\ (call.copy <=> res.made # None)
             /\ TimeLagsOf(Target, res.sel) = res.timelag
             /\ Len(res.timelag) = Cardinality(res.sel)
             /\ res.notice
        ELSE /\ ring = The(res.pre)
             /\ res.made = None
             /\ ~res.notice

C3_Witness ==
    /\ PhaseDone
    /\ ~call.copy
    /\ Cardinality(res.sel) = 2
    /\ TimeLags(ring) # PreLags
    /\ TimeLagsOf(ring, res.sel) = res.timelag

SecondCallKeeps(c) ==
    /\ c.t.outcome = "ok"
    /\ TimeLags(c.ring) = TimeLags(ring)

\* C4: on a ring on which set_cavity_phase has just succeeded with
\* copy=False, a second call with the same method and cavity selection
\* succeeds and leaves every cavity with the time-lag it had after the first
C4_Idempotent ==
    (PhaseDone /\ ~call.copy) =>
        SecondCallKeeps(set_cavity_phase(ring, call.method, call.refpts,
                                         call.cavpts, FALSE))

C4_Witness ==
    /\ PhaseDone
    /\ ~call.copy
    /\ res.path = "multi"
    /\ TimeLags(ring) # PreLags
    /\ \E i \in 1..Len(res.timelag) : res.timelag[i] # The(res.trace.phis)
    /\ The(res.trace.phis) # 0

IsLossCall == call.op = "get_energy_loss"

Denotes(m, name) ==
    \/ m = [type |-> "ELossMethod", val |-> name]
    \/ m.type = "str" /\ upper(m.val) = name

SameLoss(el) ==
    /\ res.outcome = el.outcome
    /\ res.u0 = el.value
    /\ res.estimator = el.estimator

\* C7: get_energy_loss raises AtError 'Invalid method' and returns no loss
\* for every method that denotes neither INTEGRAL nor TRACKING, a string
\* naming neither included; a string naming one of them in any letter case
\* warns and gives what the enum value gives
C7_InvalidMethodIsAtError ==
    IsLossCall =>
        /\ (\A name \in ELossMethodNames : ~Denotes(call.method, name)) =>
               /\ res.outcome = "AtError: Invalid method"
               /\ res.u0 = None
        /\ \A name \in ELossMethodNames :
               (call.method.type = "str" /\ Denotes(call.method, name)) =>
                   /\ "FutureWarning: method" \in res.warnings
                   /\ SameLoss(get_energy_loss(ring,
                          [type |-> "ELossMethod", val |-> name]))

IsWrapperCall == call.op = "frequency_control"

Supplied == {k \in MomKeys \cap DOMAIN call.kwargs : call.kwargs[k] # None}

\* C8: with radiation on and one of dp, dct, df supplied, the wrapped
\* function is called on a frequency-adjusted copy, receives none of dp,
\* dct, df, and the caller's lattice is not modified; with radiation off it
\* is called on the caller's lattice with the caller's keywords
C8_WrappedIsCalled ==
    IsWrapperCall =>
        /\ ring = The(res.pre)
        /\ (ring.radiation /\ Supplied # {}) =>
               /\ res.func_called
               /\ ~res.func_own
               /\ res.func_ring # None
               /\ DOMAIN res.func_kwargs \cap MomKeys = {}
        /\ ~ring.radiation =>
               /\ res.func_called
               /\ res.func_own
               /\ res.func_ring = Some(ring)
               /\ res.func_kwargs = call.kwargs
====
